---- MODULE Spec2Model ----
(***************************************************************************)
(* The analysis pipeline of src/main.py: POST /api/analyze ->              *)
(* analyze_sentiment -> get_sentiment_analysis (search, prompt, completion, *)
(* fence stripping, json.loads, fallback report).                          *)
(*                                                                         *)
(* Texts are sequences of symbols.  A symbol is one character (a backtick, *)
(* a quote, a brace, a digit, a blank, a newline, ...) or a run of letters *)
(* that the code never looks into (a word such as json or true, a key      *)
(* name, a Chinese phrase written here in ASCII).  The fence marker        *)
(* (backtick x3)json is three backtick symbols followed by the word json; no     *)
(* other word of the alphabet starts with the letters j,s,o,n.             *)
(***************************************************************************)
EXTENDS Integers, Sequences, FiniteSets, TLC

VARIABLES tavily, pc, topic, searchOut, context, prompt, completionOut,
          response, searchCalls, completionCalls, events

vars == <<tavily, pc, topic, searchOut, context, prompt, completionOut,
          response, searchCalls, completionCalls, events>>

(***************************************************************************)
(* Bounds of the model.                                                    *)
(***************************************************************************)
NReq == 2
MaxHits == 2

Requests == 1..NReq

(***************************************************************************)
(* Symbols.                                                                *)
(***************************************************************************)
\* the backtick character
BT == "BACKTICK"
QT == "\""
SP == " "
NL == "\n"
LBRACE == "{"
RBRACE == "}"
LBRACK == "["
RBRACK == "]"
COLON == ":"
COMMA == ","
MINUS == "-"
LPAREN == "("
RPAREN == ")"

Digits == <<"0", "1", "2", "3", "4", "5", "6", "7", "8", "9">>
DigitSet == {Digits[i] : i \in 1..10}
DigitVal(c) == (CHOOSE i \in 1..10 : Digits[i] = c) - 1

\* str.strip() with no argument strips whitespace; the json decoder skips blanks and newlines.
Whitespace == {SP, NL}

\* Characters json.loads (strict) rejects inside a string: control characters.
ControlChars == {NL}

(***************************************************************************)
(* str primitives used by get_sentiment_analysis.                          *)
(***************************************************************************)
MinOf(S) == CHOOSE x \in S : \A y \in S : x <= y
MaxOf(S) == CHOOSE x \in S : \A y \in S : x >= y

\* where old occurs in s at or after index i
Occurrences(s, old, i) ==
    {j \in i..(Len(s) - Len(old) + 1) : SubSeq(s, j, j + Len(old) - 1) = old}

\* s.replace(old, empty) from index i on: find the next occurrence, keep the
\* text before it, skip it, go on after it (occurrences never overlap)
RECURSIVE replaceFrom(_, _, _)
replaceFrom(s, old, i) ==
    LET hits == Occurrences(s, old, i)
    IN  IF hits = {} THEN SubSeq(s, i, Len(s))
        ELSE SubSeq(s, i, MinOf(hits) - 1) \o replaceFrom(s, old, MinOf(hits) + Len(old))

replace(s, old) == replaceFrom(s, old, 1)

\* s.strip(): from the first to the last symbol that is not whitespace
strip(s) ==
    LET keep == {i \in 1..Len(s) : s[i] \notin Whitespace}
    IN  IF keep = {} THEN <<>> ELSE SubSeq(s, MinOf(keep), MaxOf(keep))

\* sep.join(parts)
RECURSIVE join(_, _)
join(sep, parts) ==
    IF parts = <<>> THEN <<>>
    ELSE IF Len(parts) = 1 THEN parts[1]
    ELSE parts[1] \o sep \o join(sep, Tail(parts))

\* t in s
Contains(s, t) == \E i \in 0..(Len(s) - Len(t)) : SubSeq(s, i + 1, i + Len(t)) = t

(***************************************************************************)
(* JSON values as json.loads builds them.                                  *)
(***************************************************************************)
JInt(n) == [t |-> "int", v |-> n]
JStr(w) == [t |-> "str", v |-> w]
JBool(b) == [t |-> "bool", v |-> b]
JNull == [t |-> "null", v |-> "None"]
JArr(xs) == [t |-> "arr", v |-> xs]
JObj(f) == [t |-> "obj", v |-> f]
EmptyDict == [k \in {} |-> JNull]

(***************************************************************************)
(* json.loads: the decoder scanner over integers, strings without        *)
(* escapes, true/false/null, arrays and objects.                           *)
(***************************************************************************)
Fail == [ok |-> FALSE]
Ok(v, e) == [ok |-> TRUE, val |-> v, end |-> e]

RECURSIVE SkipWs(_, _)
SkipWs(s, i) == IF i <= Len(s) /\ s[i] \in Whitespace THEN SkipWs(s, i + 1) ELSE i

\* index of the closing quote of the string whose content starts at i; 0 if none
RECURSIVE CloseQuote(_, _)
CloseQuote(s, i) ==
    IF i > Len(s) THEN 0
    ELSE IF s[i] = QT THEN i
    ELSE IF s[i] \in ControlChars THEN 0
    ELSE CloseQuote(s, i + 1)

\* py_scanstring: s[i] is the opening quote
ScanString(s, i) ==
    LET j == CloseQuote(s, i + 1)
    IN  IF j = 0 THEN Fail ELSE Ok(JStr(SubSeq(s, i + 1, j - 1)), j + 1)

RECURSIVE DigitsEnd(_, _)
DigitsEnd(s, i) == IF i <= Len(s) /\ s[i] \in DigitSet THEN DigitsEnd(s, i + 1) ELSE i

RECURSIVE IntOf(_, _, _, _)
IntOf(s, i, e, acc) ==
    IF i >= e THEN acc ELSE IntOf(s, i + 1, e, 10 * acc + DigitVal(s[i]))

\* NUMBER_RE: -?(0|[1-9][0-9]*) ; no fraction or exponent in the alphabet
ScanNumber(s, i) ==
    LET neg == s[i] = MINUS
        d == IF neg THEN i + 1 ELSE i
    IN  IF d > Len(s) \/ s[d] \notin DigitSet THEN Fail
        ELSE LET e == IF s[d] = "0" THEN d + 1 ELSE DigitsEnd(s, d)
                 n == IntOf(s, d, e, 0)
             IN  Ok(JInt(IF neg THEN 0 - n ELSE n), e)

RECURSIVE ScanOnce(_, _)
RECURSIVE ScanArray(_, _, _)
RECURSIVE ScanObject(_, _, _)

\* JSONArray after the bracket and whitespace: i is at the next value
ScanArray(s, i, acc) ==
    LET r == ScanOnce(s, i)
    IN  IF ~r.ok THEN Fail
        ELSE LET j == SkipWs(s, r.end)
             IN  IF j > Len(s) THEN Fail
                 ELSE IF s[j] = RBRACK THEN Ok(JArr(Append(acc, r.val)), j + 1)
                 ELSE IF s[j] = COMMA
                      THEN ScanArray(s, SkipWs(s, j + 1), Append(acc, r.val))
                 ELSE Fail

\* JSONObject after the brace and whitespace: i is at the next key
ScanObject(s, i, acc) ==
    IF i > Len(s) \/ s[i] # QT THEN Fail
    ELSE LET k == ScanString(s, i)
         IN  IF ~k.ok THEN Fail
             ELSE LET c == SkipWs(s, k.end)
                  IN  IF c > Len(s) \/ s[c] # COLON THEN Fail
                      ELSE LET r == ScanOnce(s, SkipWs(s, c + 1))
                           IN  IF ~r.ok THEN Fail
                               ELSE LET j == SkipWs(s, r.end)
                                        d == (k.val.v :> r.val) @@ acc
                                    IN  IF j > Len(s) THEN Fail
                                        ELSE IF s[j] = RBRACE THEN Ok(JObj(d), j + 1)
                                        ELSE IF s[j] = COMMA
                                             THEN ScanObject(s, SkipWs(s, j + 1), d)
                                        ELSE Fail

\* scanner.scan_once at index i
ScanOnce(s, i) ==
    IF i > Len(s) THEN Fail
    ELSE IF s[i] = QT THEN ScanString(s, i)
    ELSE IF s[i] = LBRACE THEN
        LET j == SkipWs(s, i + 1)
        IN  IF j <= Len(s) /\ s[j] = RBRACE THEN Ok(JObj(EmptyDict), j + 1)
            ELSE ScanObject(s, j, EmptyDict)
    ELSE IF s[i] = LBRACK THEN
        LET j == SkipWs(s, i + 1)
        IN  IF j <= Len(s) /\ s[j] = RBRACK THEN Ok(JArr(<<>>), j + 1)
            ELSE ScanArray(s, j, <<>>)
    ELSE IF s[i] = "null" THEN Ok(JNull, i + 1)
    ELSE IF s[i] = "true" THEN Ok(JBool(TRUE), i + 1)
    ELSE IF s[i] = "false" THEN Ok(JBool(FALSE), i + 1)
    ELSE IF s[i] = MINUS \/ s[i] \in DigitSet THEN ScanNumber(s, i)
    ELSE Fail

\* json.loads(s): [ok |-> TRUE, val |-> v], or [ok |-> FALSE] for JSONDecodeError
json_loads(s) ==
    LET r == ScanOnce(s, SkipWs(s, 1))
    IN  IF r.ok /\ SkipWs(s, r.end) = Len(s) + 1 THEN [ok |-> TRUE, val |-> r.val]
        ELSE Fail

(***************************************************************************)
(* Fixed strings of get_sentiment_analysis.                                *)
(***************************************************************************)
\* the context used when the search stage raised
SENTINEL == <<"search-failed-analysis-from-model-knowledge-only">>

FENCE_JSON == <<BT, BT, BT, "json">>
FENCE == <<BT, BT, BT>>

PARSE_ERROR_LABEL == <<"parse-error">>
FALLBACK_PREFIX == <<"failed-to-parse-model-output-raw-output:", NL>>
MODEL_ERROR_PREFIX == <<"Model", SP, "Error", COLON, SP>>

PROMPT_HEAD == <<NL, "you-are-a-senior-public-opinion-analyst-analyse-topic", QT>>
PROMPT_MID == <<QT, "in-depth", NL, NL, "search-result-context", COLON, NL>>
PROMPT_TAIL == <<NL, NL, "output-strict-JSON-without-code-fence-with-this-structure", NL>>

K_score == <<"sentiment_score">>
K_label == <<"sentiment_label">>
K_keywords == <<"keywords">>
K_trend == <<"trend_data">>
K_report == <<"report_markdown">>
K_date == <<"date">>
K_trend_score == <<"score">>

HTTP_OK == 200
HTTP_ERROR == 500
max_results == 5

\* what the framework answers when the handler raises anything but HTTPException
INTERNAL_ERROR == <<"Internal", SP, "Server", SP, "Error">>

(***************************************************************************)
(* Stage 1: the search call and the context block.                         *)
(***************************************************************************)
ResultKeys == {"title", "url", "content"}

\* f"- [{res['title']}]({res['url']}): {res['content']}"
FormatResult(res) ==
    <<MINUS, SP, LBRACK>> \o res.title \o <<RBRACK, LPAREN>> \o res.url
        \o <<RPAREN, COLON, SP>> \o res.content

\* the results taken in the reverse of the order returned
FormatAllReversed(results) ==
    [i \in 1..Len(results) |-> FormatResult(results[Len(results) + 1 - i])]

FormatAll(results) == [i \in 1..Len(results) |-> FormatResult(results[i])]

\* the try body raises: tavily is None, the call raises, search_result has no
\* results key, or some result lacks one of the three keys
SearchRaises(tv, out) ==
    \/ tv = "None"
    \/ out.kind = "raise"
    \/ "results" \notin DOMAIN out.value
    \/ \E i \in 1..Len(out.value.results) :
          ~(ResultKeys \subseteq DOMAIN out.value.results[i])

\* the except branch leaves the context empty instead of setting the sentinel
ContextOfEmptyOnFailure(tv, out) ==
    IF SearchRaises(tv, out) THEN <<>>
    ELSE join(<<NL>>, FormatAll(out.value.results))

ContextOf(tv, out) ==
    IF SearchRaises(tv, out) THEN SENTINEL
    ELSE join(<<NL>>, FormatAll(out.value.results))

(***************************************************************************)
(* Stage 2: the prompt.                                                    *)
(***************************************************************************)
BuildPrompt(tp, ctx) == PROMPT_HEAD \o tp \o PROMPT_MID \o ctx \o PROMPT_TAIL

(***************************************************************************)
(* Stage 3: cleaning and parsing the completion.                           *)
(***************************************************************************)
\* only the opening json marker is removed
cleanJsonFenceOnly(content) == strip(replace(content, FENCE_JSON))

\* content.replace(FENCE_JSON, empty).replace(FENCE, empty).strip()
clean(content) == strip(replace(replace(content, FENCE_JSON), FENCE))

\* the fallback with an empty keyword list
FallbackReportEmptyKeywords(content) ==
    JObj((K_score :> JInt(50))
         @@ (K_label :> JStr(PARSE_ERROR_LABEL))
         @@ (K_keywords :> JArr(<<>>))
         @@ (K_trend :> JArr(<<>>))
         @@ (K_report :> JStr(FALLBACK_PREFIX \o content)))

FallbackReport(content) ==
    JObj((K_score :> JInt(50))
         @@ (K_label :> JStr(PARSE_ERROR_LABEL))
         @@ (K_keywords :> JArr(<<JStr(<<"Error">>)>>))
         @@ (K_trend :> JArr(<<>>))
         @@ (K_report :> JStr(FALLBACK_PREFIX \o content)))

Clamp(n) == IF n < 0 THEN 0 ELSE IF n > 100 THEN 100 ELSE n

\* the parsed report with its score clamped to 0..100
ParseOutputClamped(content) ==
    LET c == clean(content)
        r == json_loads(c)
    IN  IF ~r.ok THEN FallbackReport(c)
        ELSE IF r.val.t = "obj" /\ K_score \in DOMAIN r.val.v /\ r.val.v[K_score].t = "int"
             THEN JObj([r.val.v EXCEPT ![K_score] = JInt(Clamp(@.v))])
        ELSE r.val

\* the status_code == OK branch
ParseOutput(content) ==
    LET c == clean(content)
        r == json_loads(c)
    IN  IF r.ok THEN r.val ELSE FallbackReport(c)

\* the 500 without the collaborator message
ResponseOfNoMessage(out) ==
    IF out.kind = "raise" THEN [status |-> HTTP_ERROR, detail |-> INTERNAL_ERROR]
    ELSE IF out.status_code = HTTP_OK
         THEN [status |-> HTTP_OK, body |-> ParseOutput(out.content)]
    ELSE [status |-> HTTP_ERROR, detail |-> MODEL_ERROR_PREFIX]

\* unparseable output raised to the caller instead of the fallback report
ResponseOfStrict(out) ==
    IF out.kind = "raise" THEN [status |-> HTTP_ERROR, detail |-> INTERNAL_ERROR]
    ELSE IF out.status_code # HTTP_OK
         THEN [status |-> HTTP_ERROR, detail |-> MODEL_ERROR_PREFIX \o out.message]
    ELSE IF json_loads(clean(out.content)).ok
         THEN [status |-> HTTP_OK, body |-> ParseOutput(out.content)]
    ELSE [status |-> HTTP_ERROR, detail |-> INTERNAL_ERROR]

\* how analyze_sentiment ends for one completion outcome
ResponseOf(out) ==
    IF out.kind = "raise" THEN [status |-> HTTP_ERROR, detail |-> INTERNAL_ERROR]
    ELSE IF out.status_code = HTTP_OK
         THEN [status |-> HTTP_OK, body |-> ParseOutput(out.content)]
    ELSE [status |-> HTTP_ERROR, detail |-> MODEL_ERROR_PREFIX \o out.message]

(***************************************************************************)
(* What the two collaborators can answer.  The completion texts are built  *)
(* by a JSON writer, so that parsing them back is a round trip.            *)
(***************************************************************************)
RECURSIVE NatText(_)
NatText(n) == IF n < 10 THEN <<Digits[n + 1]>> ELSE NatText(n \div 10) \o <<Digits[(n % 10) + 1]>>

IntText(n) == IF n < 0 THEN <<MINUS>> \o NatText(0 - n) ELSE NatText(n)

StrText(w) == <<QT>> \o w \o <<QT>>
MemberText(k, vt) == StrText(k) \o <<COLON, SP>> \o vt
ArrText(items) == <<LBRACK>> \o join(<<COMMA, SP>>, items) \o <<RBRACK>>
ObjText(members) == <<LBRACE>> \o join(<<COMMA, NL, SP>>, members) \o <<RBRACE>>

PointText(p) ==
    ObjText(<<MemberText(K_date, StrText(p.date)), MemberText(K_trend_score, IntText(p.score))>>)

ReportText(score, label, kws, trend, md) ==
    ObjText(<<MemberText(K_score, IntText(score)),
              MemberText(K_label, StrText(label)),
              MemberText(K_keywords, ArrText([i \in 1..Len(kws) |-> StrText(kws[i])])),
              MemberText(K_trend, ArrText([i \in 1..Len(trend) |-> PointText(trend[i])])),
              MemberText(K_report, StrText(md))>>)

\* the value the text above stands for
PointValue(p) == JObj((K_date :> JStr(p.date)) @@ (K_trend_score :> JInt(p.score)))

ReportValue(score, label, kws, trend, md) ==
    JObj((K_score :> JInt(score))
         @@ (K_label :> JStr(label))
         @@ (K_keywords :> JArr([i \in 1..Len(kws) |-> JStr(kws[i])]))
         @@ (K_trend :> JArr([i \in 1..Len(trend) |-> PointValue(trend[i])]))
         @@ (K_report :> JStr(md)))

Scores == {0, 50, 100, 150, 0 - 7}
Labels == {<<"positive">>}
Markdowns == {<<"#", SP, "background">>,
              <<"use", SP>> \o FENCE \o <<"sh", SP, "ls", SP>> \o FENCE,
              <<"example", COLON, SP>> \o FENCE_JSON \o <<SP, LBRACE, RBRACE, SP>> \o FENCE}

FullKeywords == <<<<"k1">>, <<"k2", SP, "k3">>>>
FullTrend == <<[date |-> <<"05", MINUS, "01">>, score |-> 30],
               [date |-> <<"05", MINUS, "02">>, score |-> 200]>>

\* every score with every narrative, and one report with empty sequences
ReportArgs ==
    (Scores \X Labels \X {FullKeywords} \X {FullTrend} \X Markdowns)
    \cup {<<50, <<"neutral">>, <<>>, <<>>, <<"#", SP, "background">>>>}
ReportTextOf(a) == ReportText(a[1], a[2], a[3], a[4], a[5])
ReportTexts == {ReportTextOf(a) : a \in ReportArgs}

\* well-formed JSON that is no report
OtherJsonTexts ==
    {<<LBRACK, RBRACK>>, <<"null">>, <<"7">>, <<LBRACE, RBRACE>>, StrText(<<"fine">>),
     ObjText(<<MemberText(K_score, IntText(50))>>),
     ObjText(<<MemberText(K_score, StrText(<<"high">>)),
               MemberText(K_label, IntText(1)),
               MemberText(K_keywords, <<"null">>),
               MemberText(K_trend, ArrText(<<IntText(1)>>)),
               MemberText(K_report, <<"true">>)>>),
     ObjText(<<MemberText(K_score, IntText(1)), MemberText(K_score, IntText(2))>>)}

\* texts json.loads rejects
BrokenTexts ==
    {<<>>, <<"Sorry", COMMA, SP, "no", SP, "data">>, <<LBRACE>>,
     <<LBRACK, "1", COMMA, RBRACK>>, <<"01">>, <<MINUS>>,
     <<"Here", SP, "it", SP, "is", COLON, NL>> \o ObjText(<<MemberText(K_score, IntText(50))>>),
     StrText(<<"line", NL, "break">>),
     <<LBRACE>> \o MemberText(K_score, IntText(50)) \o <<COMMA, RBRACE>>}

InnerTexts == ReportTexts \cup OtherJsonTexts \cup BrokenTexts

Fenced(x) == FENCE_JSON \o <<NL>> \o x \o <<NL>> \o FENCE
FencedTight(x) == FENCE_JSON \o x \o FENCE
FencedPlain(x) == FENCE \o <<NL>> \o x \o <<NL>> \o FENCE
Padded(x) == <<SP, NL>> \o x \o <<NL>>

CompletionTexts ==
    InnerTexts \cup {Fenced(x) : x \in InnerTexts} \cup {FencedTight(x) : x \in InnerTexts}
        \cup {FencedPlain(x) : x \in InnerTexts} \cup {Padded(x) : x \in InnerTexts}

Messages == {<<"quota", SP, "exceeded">>, <<"Invalid", SP, "API", MINUS, "key">>}

NoCall == [kind |-> "none"]
Raised == [kind |-> "raise"]

\* dashscope.Generation.call: a response with a status code, or an exception
CompletionOutcomes ==
    {[kind |-> "response", status_code |-> HTTP_OK, content |-> c, message |-> <<>>] :
        c \in CompletionTexts}
    \cup {[kind |-> "response", status_code |-> sc, content |-> <<>>, message |-> m] :
        sc \in {401, 429}, m \in Messages}
    \cup {Raised}

Hit(n) == [title |-> <<"title", n>>, url |-> <<"http", COLON, "//site", n>>,
           content |-> <<"snippet", SP, n>>]
Hits == {Hit("1"), Hit("2"),
         [title |-> <<"a", RBRACK, "b">>, url |-> <<>>, content |-> <<"two", NL, "lines">>]}
BrokenHits == {[title |-> <<"title">>, url |-> <<"u">>], [url |-> <<"u">>, content |-> <<"c">>],
               [title |-> <<"title">>, content |-> <<"c">>]}

HitLimit == IF MaxHits < max_results THEN MaxHits ELSE max_results

SeqsUpTo(S, n) == UNION {[1..k -> S] : k \in 0..n}

\* tavily.search: a dict with a results list, a malformed dict, or an exception
SearchOutcomes ==
    {[kind |-> "return", value |-> [results |-> rs]] : rs \in SeqsUpTo(Hits, HitLimit)}
    \cup {[kind |-> "return", value |-> [results |-> <<Hit("1"), b>>]] : b \in BrokenHits}
    \cup {[kind |-> "return", value |-> [results |-> <<b, Hit("2")>>]] : b \in BrokenHits}
    \cup {[kind |-> "return", value |-> [error |-> <<"bad", SP, "request">>]]}
    \cup {Raised}

Topics == {<<"OpenAI">>, <<"SU7", SP, "launch">>}

(***************************************************************************)
(* The state machine of one request, for the requests of a set.            *)
(***************************************************************************)
NoResponse == [status |-> 0]

\* module import: tavily is a client when TAVILY_API_KEY is set and the
\* constructor did not raise, None otherwise; no request is in flight
Init ==
    /\ tavily \in {"TavilyClient", "None"}
    /\ pc = [r \in Requests |-> "IDLE"]
    /\ topic = [r \in Requests |-> <<>>]
    /\ searchOut = [r \in Requests |-> NoCall]
    /\ context = [r \in Requests |-> <<>>]
    /\ prompt = [r \in Requests |-> <<>>]
    /\ completionOut = [r \in Requests |-> NoCall]
    /\ response = [r \in Requests |-> NoResponse]
    /\ searchCalls = [r \in Requests |-> 0]
    /\ completionCalls = [r \in Requests |-> 0]
    /\ events = [r \in Requests |-> <<>>]

\* analyze_sentiment is entered with a validated TopicRequest
Receive(r, tps) ==
    /\ pc[r] = "IDLE"
    /\ \E tp \in tps : topic' = [topic EXCEPT ![r] = tp]
    /\ pc' = [pc EXCEPT ![r] = "RETRIEVING"]
    /\ events' = [events EXCEPT ![r] = Append(@, "request")]
    /\ UNCHANGED <<tavily, searchOut, context, prompt, completionOut, response,
                   searchCalls, completionCalls>>

\* the context kept in one module-level variable shared by all requests
RetrieveShared(r, outs) ==
    /\ pc[r] = "RETRIEVING"
    /\ \E out \in (IF tavily = "None" THEN {NoCall} ELSE outs) :
          /\ searchOut' = [searchOut EXCEPT ![r] = out]
          /\ searchCalls' = [searchCalls EXCEPT ![r] = IF out = NoCall THEN @ ELSE @ + 1]
          /\ context' = [q \in Requests |-> ContextOf(tavily, out)]
          /\ events' = [events EXCEPT ![r] =
                 @ \o (IF out = NoCall THEN <<>> ELSE <<"search_call">>)
                   \o (IF SearchRaises(tavily, out) THEN <<"search_failed">>
                       ELSE <<"search_done">>)]
    /\ pc' = [pc EXCEPT ![r] = "PROMPTING"]
    /\ UNCHANGED <<tavily, topic, prompt, completionOut, response, completionCalls>>

\* the try/except around tavily.search and the join
Retrieve(r, outs) ==
    /\ pc[r] = "RETRIEVING"
    /\ \E out \in (IF tavily = "None" THEN {NoCall} ELSE outs) :
          /\ searchOut' = [searchOut EXCEPT ![r] = out]
          /\ searchCalls' = [searchCalls EXCEPT ![r] = IF out = NoCall THEN @ ELSE @ + 1]
          /\ context' = [context EXCEPT ![r] = ContextOf(tavily, out)]
          /\ events' = [events EXCEPT ![r] =
                 @ \o (IF out = NoCall THEN <<>> ELSE <<"search_call">>)
                   \o (IF SearchRaises(tavily, out) THEN <<"search_failed">>
                       ELSE <<"search_done">>)]
    /\ pc' = [pc EXCEPT ![r] = "PROMPTING"]
    /\ UNCHANGED <<tavily, topic, prompt, completionOut, response, completionCalls>>

\* the prompt f-string
Prompt(r) ==
    /\ pc[r] = "PROMPTING"
    /\ prompt' = [prompt EXCEPT ![r] = BuildPrompt(topic[r], context[r])]
    /\ pc' = [pc EXCEPT ![r] = "SYNTHESIZING"]
    /\ events' = [events EXCEPT ![r] = Append(@, "prompt_built")]
    /\ UNCHANGED <<tavily, topic, searchOut, context, completionOut, response,
                   searchCalls, completionCalls>>

\* the completion called a second time after a failed first call
SynthesizeRetry(r, outs) ==
    /\ pc[r] = "SYNTHESIZING"
    /\ \E first \in outs :
          \E out \in (IF first.kind = "raise" \/ first.status_code # HTTP_OK
                      THEN outs ELSE {first}) :
              /\ completionOut' = [completionOut EXCEPT ![r] = out]
              /\ response' = [response EXCEPT ![r] = ResponseOf(out)]
              /\ pc' = [pc EXCEPT ![r] =
                     IF ResponseOf(out).status = HTTP_OK THEN "DONE" ELSE "FAILED"]
              /\ completionCalls' = [completionCalls EXCEPT ![r] =
                     IF first.kind = "raise" \/ first.status_code # HTTP_OK
                     THEN @ + 2 ELSE @ + 1]
              /\ events' = [events EXCEPT ![r] =
                     @ \o (IF first.kind = "raise" \/ first.status_code # HTTP_OK
                           THEN <<"completion_call", "completion_raised">> ELSE <<>>)
                       \o <<"completion_call">>
                       \o (IF out.kind = "raise" THEN <<"completion_raised">>
                           ELSE <<"completion_returned">>)]
    /\ UNCHANGED <<tavily, topic, searchOut, context, prompt, searchCalls>>

\* dashscope.Generation.call and everything after it, up to the HTTP response
Synthesize(r, outs) ==
    /\ pc[r] = "SYNTHESIZING"
    /\ \E out \in outs :
          /\ completionOut' = [completionOut EXCEPT ![r] = out]
          /\ response' = [response EXCEPT ![r] = ResponseOf(out)]
          /\ pc' = [pc EXCEPT ![r] =
                 IF ResponseOf(out).status = HTTP_OK THEN "DONE" ELSE "FAILED"]
          /\ events' = [events EXCEPT ![r] =
                 @ \o <<"completion_call">>
                   \o (IF out.kind = "raise" THEN <<"completion_raised">>
                       ELSE <<"completion_returned">>)]
    /\ completionCalls' = [completionCalls EXCEPT ![r] = @ + 1]
    /\ UNCHANGED <<tavily, topic, searchOut, context, prompt, searchCalls>>

\* one request, every answer of the collaborators
ReceiveRequest == Receive(1, Topics)
ContextRetrieval == Retrieve(1, SearchOutcomes)
PromptConstruction == Prompt(1)
ReportSynthesis == Synthesize(1, CompletionOutcomes)

Next == ReceiveRequest \/ ContextRetrieval \/ PromptConstruction \/ ReportSynthesis

Spec == Init /\ [][Next]_vars

(***************************************************************************)
(* Several requests in flight at once, a few answers of each collaborator. *)
(***************************************************************************)
SearchOutcomesC ==
    {Raised,
     [kind |-> "return", value |-> [results |-> <<Hit("1")>>]],
     [kind |-> "return", value |-> [results |-> <<Hit("2"), Hit("1")>>]]}

CompletionOutcomesC ==
    {[kind |-> "response", status_code |-> HTTP_OK, message |-> <<>>,
      content |-> ReportText(50, <<"neutral">>, <<>>, <<>>, <<"#", SP, "background">>)],
     [kind |-> "response", status_code |-> HTTP_OK, message |-> <<>>,
      content |-> <<"Sorry", COMMA, SP, "no", SP, "data">>],
     [kind |-> "response", status_code |-> 429, content |-> <<>>,
      message |-> <<"quota", SP, "exceeded">>],
     Raised}

ReceiveAny == \E r \in Requests : Receive(r, Topics)
RetrieveAny == \E r \in Requests : Retrieve(r, SearchOutcomesC)
PromptAny == \E r \in Requests : Prompt(r)
SynthesizeAny == \E r \in Requests : Synthesize(r, CompletionOutcomesC)

NextConc == ReceiveAny \/ RetrieveAny \/ PromptAny \/ SynthesizeAny

SpecConc == Init /\ [][NextConc]_vars

(***************************************************************************)
(* Vocabulary of the properties.                                           *)
(***************************************************************************)
Terminal(r) == pc[r] \in {"DONE", "FAILED"}
Retrieved(r) == pc[r] \in {"PROMPTING", "SYNTHESIZING", "DONE", "FAILED"}
Prompted(r) == pc[r] \in {"SYNTHESIZING", "DONE", "FAILED"}

\* the search stage of request r failed: no client, an exception, or a malformed answer
SearchFailed(r) ==
    \/ tavily = "None"
    \/ searchOut[r].kind = "raise"
    \/ /\ searchOut[r].kind = "return"
       /\ \/ "results" \notin DOMAIN searchOut[r].value
          \/ \E i \in 1..Len(searchOut[r].value.results) :
                \E k \in {"title", "url", "content"} :
                    k \notin DOMAIN searchOut[r].value.results[i]

CompletionOk(r) ==
    completionOut[r].kind = "response" /\ completionOut[r].status_code = 200

\* the completion collaborator failed at the transport level
TransportError(out) ==
    out.kind = "raise" \/ (out.kind = "response" /\ out.status_code # 200)

ReportKeys == {K_score, K_label, K_keywords, K_trend, K_report}

IsPoint(v) ==
    /\ v.t = "obj"
    /\ {K_date, K_trend_score} \subseteq DOMAIN v.v
    /\ v.v[K_date].t = "str"
    /\ v.v[K_trend_score].t = "int"

\* an object with the five AnalysisReport fields, each of its JSON type
IsReport(v) ==
    /\ v.t = "obj"
    /\ ReportKeys \subseteq DOMAIN v.v
    /\ v.v[K_score].t = "int"
    /\ v.v[K_label].t = "str"
    /\ v.v[K_keywords].t = "arr"
    /\ \A i \in 1..Len(v.v[K_keywords].v) : v.v[K_keywords].v[i].t = "str"
    /\ v.v[K_trend].t = "arr"
    /\ \A i \in 1..Len(v.v[K_trend].v) : IsPoint(v.v[K_trend].v[i])
    /\ v.v[K_report].t = "str"

HasFence(x) == Occurrences(x, FENCE, 1) # {}

Count(sq, e) == Cardinality({i \in 1..Len(sq) : sq[i] = e})

(***************************************************************************)
(* C1 *)
(***************************************************************************)
\* C1: a finished request ended in a 500, or in a 200 whose body is an object
\* holding the five AnalysisReport fields with their JSON types.
C1_ShapeOrError ==
    Terminal(1) =>
        \/ response[1].status = 500
        \/ response[1].status = 200 /\ IsReport(response[1].body)

C4_ModelError ==
    (Terminal(1) /\ completionOut[1].kind = "response"
        /\ completionOut[1].status_code # 200) =>
        /\ pc[1] = "FAILED"
        /\ response[1].status = 500
        /\ "body" \notin DOMAIN response[1]
        /\ Contains(response[1].detail, completionOut[1].message)
        /\ completionCalls[1] = 1
        /\ Count(events[1], "completion_call") = 1

C4_Witness ==
    /\ pc[1] = "FAILED"
    /\ completionOut[1].kind = "response"
    /\ completionOut[1].message = <<"quota", SP, "exceeded">>
    /\ context[1] = SENTINEL
    /\ Contains(response[1].detail, <<"quota", SP, "exceeded">>)

(***************************************************************************)
(* C5 *)
(***************************************************************************)
\* C5 as stated: when the completion text is an inner text X that is valid
\* JSON, wrapped in a json fence, the body is the value X parses to, also when
\* X holds fence markers inside its strings.
C5_Original ==
    \A x \in InnerTexts :
        (Terminal(1) /\ CompletionOk(1) /\ completionOut[1].content = Fenced(x)
            /\ json_loads(x).ok) =>
            /\ response[1].status = 200
            /\ response[1].body = json_loads(x).val

\* C5 amended: when the completion text is X wrapped in a json fence, the body
\* is what the pipeline returns for the unwrapped X; it is the value X parses
\* to when X is valid JSON and holds no triple backtick, and the fallback
\* report over X when X is not valid JSON and holds no triple backtick.  Fence
\* markers inside X are removed before parsing, wrapped or not.
C5_FenceTransparent ==
    \A x \in InnerTexts :
        (Terminal(1) /\ CompletionOk(1)
            /\ completionOut[1].content \in {Fenced(x), FencedTight(x)}) =>
            /\ response[1].status = 200
            /\ response[1].body = ParseOutput(x)
            /\ (~HasFence(x) /\ json_loads(x).ok) => response[1].body = json_loads(x).val
            /\ (~HasFence(x) /\ ~json_loads(x).ok /\ ~json_loads(strip(x)).ok) =>
                  response[1].body.v[K_report].v = FALLBACK_PREFIX \o strip(x)

C5_Witness ==
    /\ pc[1] = "DONE"
    /\ completionOut[1].content =
           Fenced(ReportText(150, <<"positive">>, FullKeywords, FullTrend,
                             <<"#", SP, "background">>))
    /\ response[1].body =
           ReportValue(150, <<"positive">>, FullKeywords, FullTrend, <<"#", SP, "background">>)

(***************************************************************************)
(* C6 *)
(***************************************************************************)
Lifecycle ==
    {<<"IDLE", "RETRIEVING">>, <<"RETRIEVING", "PROMPTING">>,
     <<"PROMPTING", "SYNTHESIZING">>, <<"SYNTHESIZING", "DONE">>,
     <<"SYNTHESIZING", "FAILED">>}

Local(r) ==
    <<pc[r], topic[r], searchOut[r], context[r], prompt[r], completionOut[r],
      response[r], searchCalls[r], completionCalls[r], events[r]>>

\* equal own inputs give equal context, prompt and outcome
SameInputsSameOutcome ==
    \A r1, r2 \in Requests :
        /\ (Retrieved(r1) /\ Retrieved(r2) /\ searchOut[r1] = searchOut[r2])
              => context[r1] = context[r2]
        /\ (Prompted(r1) /\ Prompted(r2) /\ searchOut[r1] = searchOut[r2]
                /\ topic[r1] = topic[r2]) => prompt[r1] = prompt[r2]
        /\ (Terminal(r1) /\ Terminal(r2) /\ completionOut[r1] = completionOut[r2])
              => (response[r1] = response[r2] /\ pc[r1] = pc[r2])

\* C7: under every interleaving of the requests, a step is a step of one
\* request and leaves every other request's state as it was, the module-level
\* search handle never changes, and requests with the same own inputs end with
\* the same context, prompt and response.
C7_Independent ==
    [][/\ tavily' = tavily
       /\ \E r \in Requests : \A q \in Requests \ {r} : Local(q)' = Local(q)
       /\ SameInputsSameOutcome']_vars

C7_Witness ==
    /\ pc[1] = "SYNTHESIZING"
    /\ pc[2] = "FAILED"
    /\ topic[1] # topic[2]
    /\ context[1] # context[2]
    /\ context[1] # SENTINEL

(***************************************************************************)
(* C8 *)
(***************************************************************************)
Rank(e) ==
    CASE e = "request" -> 0
      [] e = "search_call" -> 1
      [] e \in {"search_done", "search_failed"} -> 2
      [] e = "prompt_built" -> 3
      [] e = "completion_call" -> 4
      [] e \in {"completion_returned", "completion_raised"} -> 5

HasRank(sq, n) == \E i \in 1..Len(sq) : Rank(sq[i]) = n

\* C8: within a request the search is called at most once and the completion
\* exactly once; the search has ended before the prompt is built, the prompt
\* is built before the completion call, no call is repeated, and the request
\* is in DONE or FAILED exactly once the completion call has ended.
C8_CallOrder ==
    /\ searchCalls[1] <= 1
    /\ completionCalls[1] <= 1
    /\ Count(events[1], "search_call") = searchCalls[1]
    /\ Count(events[1], "completion_call") = completionCalls[1]
    /\ \A i, j \in 1..Len(events[1]) : i < j => Rank(events[1][i]) < Rank(events[1][j])
    /\ HasRank(events[1], 3) => HasRank(events[1], 2)
    /\ HasRank(events[1], 4) => HasRank(events[1], 3)
    /\ Terminal(1) <=> HasRank(events[1], 5)
    /\ Terminal(1) <=> completionCalls[1] = 1
    /\ Terminal(1) => response[1].status \in {200, 500}
    /\ tavily = "None" => searchCalls[1] = 0

C8_Witness ==
    /\ pc[1] = "FAILED"
    /\ searchCalls[1] = 1
    /\ searchOut[1].kind = "raise"
    /\ completionOut[1].kind = "raise"
    /\ completionCalls[1] = 1

(***************************************************************************)
(* C9 *)
(***************************************************************************)
Unfenced(md) == replace(replace(md, FENCE_JSON), FENCE)

\* C9: when the completion text is the JSON text of a report with score s,
\* label l, keywords k, trend t and narrative m, bare or padded with blanks,
\* the body is exactly that report: the same five fields and values, a score
\* outside 0..100 unchanged, no fallback; the narrative is the one of the
\* cleaned text.  Other JSON values come back as they parse.
C9_PassThrough ==
    /\ \A a \in ReportArgs :
          (Terminal(1) /\ CompletionOk(1)
              /\ completionOut[1].content \in {ReportTextOf(a), Padded(ReportTextOf(a))}) =>
              /\ response[1].status = 200
              /\ response[1].body = ReportValue(a[1], a[2], a[3], a[4], Unfenced(a[5]))
              /\ DOMAIN response[1].body.v = ReportKeys
              /\ response[1].body.v[K_score].v = a[1]
    /\ (Terminal(1) /\ CompletionOk(1)) =>
          /\ completionOut[1].content = <<"7">> => response[1].body = JInt(7)
          /\ completionOut[1].content = <<LBRACK, RBRACK>> => response[1].body = JArr(<<>>)
          /\ completionOut[1].content = <<"null">> => response[1].body = JNull
          /\ completionOut[1].content = ObjText(<<MemberText(K_score, IntText(50))>>)
                => response[1].body = JObj(K_score :> JInt(50))

C9_Witness ==
    /\ pc[1] = "DONE"
    /\ completionOut[1].content =
           ReportText(150, <<"positive">>, FullKeywords, FullTrend, <<"#", SP, "background">>)
    /\ response[1].body.v[K_score] = JInt(150)
    /\ response[1].body.v[K_trend].v[2].v[K_trend_score] = JInt(200)

(***************************************************************************)
(* C10 *)
(***************************************************************************)
ExpectedLine(h) ==
    <<"-", " ", "[">> \o h.title \o <<"]", "(">> \o h.url \o <<")", ":", " ">> \o h.content

\* where line i starts in the context: after the lines before it and their newlines
RECURSIVE LineStart(_, _)
LineStart(hs, i) ==
    IF i = 1 THEN 1 ELSE LineStart(hs, i - 1) + Len(ExpectedLine(hs[i - 1])) + 1

\* C10: when the search returns well-formed results r1..rn, n at most 5, the
\* context is n lines in the order returned, line i being
\* - [title_i](url_i): content_i, with one newline between two lines and
\* nothing else; the context is the sentinel only when the search stage failed.
C10_ContextLines ==
    Retrieved(1) =>
        /\ ~SearchFailed(1) =>
              LET hs == searchOut[1].value.results
                  n == Len(hs)
              IN  /\ n <= 5
                  /\ n = 0 => context[1] = <<>>
                  /\ n > 0 => Len(context[1]) = LineStart(hs, n) + Len(ExpectedLine(hs[n])) - 1
                  /\ \A i \in 1..n :
                        SubSeq(context[1], LineStart(hs, i),
                               LineStart(hs, i) + Len(ExpectedLine(hs[i])) - 1)
                            = ExpectedLine(hs[i])
                  /\ \A i \in 2..n : context[1][LineStart(hs, i) - 1] = "\n"
        /\ context[1] = SENTINEL => SearchFailed(1)

C10_Witness ==
    /\ pc[1] = "SYNTHESIZING"
    /\ ~SearchFailed(1)
    /\ searchOut[1].value.results = <<Hit("2"), Hit("1")>>
    /\ context[1] = <<"-", " ", "[", "title", "2", "]", "(", "http", ":", "//site", "2", ")",
                      ":", " ", "snippet", " ", "2", "\n",
                      "-", " ", "[", "title", "1", "]", "(", "http", ":", "//site", "1", ")",
                      ":", " ", "snippet", " ", "1">>

====
